---- MODULE Spec2Model ----
(***************************************************************************)
(* A model of the WhatsApp Analyzer (src/main.py): the transcript parser,  *)
(* the filter, the transcription worker and the owner window that ties     *)
(* them together.                                                          *)
(*                                                                         *)
(* Text is modelled as a sequence of one-character strings, so that the    *)
(* regular expressions, strip() and string concatenation of the source are *)
(* computed character by character.  An optional value (Python's None or a *)
(* value) is the empty sequence or a one-element sequence.                 *)
(***************************************************************************)
EXTENDS Integers, Sequences, FiniteSets, TLC

\* ---------------------------------------------------------------- bounds
\* The longest transcript file, in lines, that the parser is run on.
MaxLines == 3
\* The longest Record list that the filter is called on by itself.
MaxMsgs == 3
\* The longest transcript file, in lines, that is parsed and then filtered.
MaxImport == 2
\* The longest Record list that generate_summary is called on by itself.
MaxSummary == 4
\* The longest Record list that export_pdf is called on by itself.
MaxExport == 3

\* ------------------------------------------------------ optional values
NoneVal == <<>>
Some(x) == <<x>>
IsNone(o) == o = <<>>
IsSome(o) == o # <<>>
The(o) == o[1]

\* ------------------------------------------------------------ characters
Digits == {"0", "1", "2", "3", "4", "5", "6", "7", "8", "9"}
\* The characters of the model that Python's \s and str.strip() treat as
\* whitespace.
Whitespace == {" ", "\t"}

DigitVal(c) ==
    CASE c = "0" -> 0 [] c = "1" -> 1 [] c = "2" -> 2 [] c = "3" -> 3
      [] c = "4" -> 4 [] c = "5" -> 5 [] c = "6" -> 6 [] c = "7" -> 7
      [] c = "8" -> 8 [] c = "9" -> 9

\* re.IGNORECASE on the letters the audio extensions are made of.
Lower(c) ==
    CASE c = "A" -> "a" [] c = "C" -> "c" [] c = "G" -> "g" [] c = "M" -> "m"
      [] c = "O" -> "o" [] c = "P" -> "p" [] c = "S" -> "s" [] c = "U" -> "u"
      [] c = "V" -> "v" [] c = "W" -> "w"
      [] OTHER -> c

\* The character of s at position i, or "" past either end.
At(s, i) == IF i >= 1 /\ i <= Len(s) THEN s[i] ELSE ""

\* s[i..j], empty when j < i.
Slice(s, i, j) == IF j < i THEN <<>> ELSE SubSeq(s, i, j)

\* The length of the longest run of characters of class C starting at i.
RECURSIVE Run(_, _, _)
Run(s, i, C) ==
    IF i <= Len(s) /\ s[i] \in C THEN 1 + Run(s, i + 1, C) ELSE 0

\* The length of the longest run of characters outside class C starting at i.
RECURSIVE RunNot(_, _, _)
RunNot(s, i, C) ==
    IF i <= Len(s) /\ s[i] \notin C THEN 1 + RunNot(s, i + 1, C) ELSE 0

Min(a, b) == IF a <= b THEN a ELSE b

\* str.strip(): leading and trailing whitespace removed.
RECURSIVE LStrip(_)
LStrip(s) ==
    IF s # <<>> /\ Head(s) \in Whitespace THEN LStrip(Tail(s)) ELSE s

RECURSIVE RStrip(_)
RStrip(s) ==
    IF s # <<>> /\ s[Len(s)] \in Whitespace
    THEN RStrip(SubSeq(s, 1, Len(s) - 1))
    ELSE s

Strip(s) == RStrip(LStrip(s))

\* The number a run of digit characters denotes.
RECURSIVE Number(_)
Number(s) ==
    IF s = <<>> THEN 0
    ELSE 10 * Number(SubSeq(s, 1, Len(s) - 1)) + DigitVal(s[Len(s)])

\* ------------------------------------------------------- WHATSAPP_MSG_RE
\* U+2013, the second dash the header pattern accepts, as one character.
EnDash == "ndash"
DateSeps == {".", "/"}
Dashes == {"-", EnDash}
Meridiem1 == {"A", "P", "a", "p"}
Meridiem2 == {"M", "m"}

NoMatch ==
    [matched |-> FALSE, date_str |-> <<>>, time_str |-> <<>>,
     sender |-> <<>>, text |-> <<>>]

\* The pieces of WHATSAPP_MSG_RE, each tried at a position of the line and
\* giving the position it ends at, or 0 where it does not match.  Every
\* quantifier of the pattern is greedy; the only place where giving back a
\* character lets the rest of the pattern match is the whitespace before
\* an otherwise empty sender.

\* \d{1,hi}: the number of digits taken at position i.
DigitsAt(line, i, hi) == Min(Run(line, i, Digits), hi)

\* ^(\d{1,2}[./]\d{1,2}[./]\d{2,4}),  the position of the comma.
DateComma(line) ==
    LET n1 == DigitsAt(line, 1, 2)
        n2 == DigitsAt(line, n1 + 2, 2)
        n3 == DigitsAt(line, n1 + n2 + 3, 4)
    IN  IF /\ n1 >= 1 /\ At(line, n1 + 1) \in DateSeps
           /\ n2 >= 1 /\ At(line, n1 + n2 + 2) \in DateSeps
           /\ n3 >= 2 /\ At(line, n1 + n2 + n3 + 3) = ","
        THEN n1 + n2 + n3 + 3 ELSE 0

\* \s*  the position after the whitespace that starts at i.
SkipSpace(line, i) == i + Run(line, i, Whitespace)

\* \d{1,2}:\d{2}  at t0: the position after the minutes.
HourMinuteEnd(line, t0) ==
    LET nh == DigitsAt(line, t0, 2)
    IN  IF /\ nh >= 1 /\ At(line, t0 + nh) = ":"
           /\ At(line, t0 + nh + 1) \in Digits
           /\ At(line, t0 + nh + 2) \in Digits
        THEN t0 + nh + 3 ELSE 0

\* (?::\d{2})?  at q: the position after the seconds, if there are any.
SecondsEnd(line, q) ==
    IF /\ At(line, q) = ":"
       /\ At(line, q + 1) \in Digits
       /\ At(line, q + 2) \in Digits
    THEN q + 3 ELSE q

\* (?:\s?[APap][Mm])?  at q: the position after am or pm, if it is there.
MeridiemEnd(line, q) ==
    IF /\ At(line, q) \in Whitespace
       /\ At(line, q + 1) \in Meridiem1
       /\ At(line, q + 2) \in Meridiem2
    THEN q + 3
    ELSE IF At(line, q) \in Meridiem1 /\ At(line, q + 1) \in Meridiem2
         THEN q + 2 ELSE q

\* (\d{1,2}:\d{2}(?::\d{2})?(?:\s?[APap][Mm])?)  at t0: the position after
\* the time.
TimeEnd(line, t0) ==
    IF HourMinuteEnd(line, t0) = 0 THEN 0
    ELSE MeridiemEnd(line, SecondsEnd(line, HourMinuteEnd(line, t0)))

\* \s*[-–]  at q: the position of the dash.
DashAt(line, q) ==
    IF At(line, SkipSpace(line, q)) \in Dashes THEN SkipSpace(line, q) ELSE 0

\* \s*([^:]+):  after the dash at d: the first position of the sender and
\* the position of the colon, or <<>>.  [^:]+ needs one character: where
\* the colon follows the whitespace at once, \s* gives back its last
\* character to be the sender.
SenderSpan(line, d) ==
    LET w == Run(line, d + 1, Whitespace)
        r == RunNot(line, d + 1 + w, {":"})
        c == d + 1 + w + r
    IN  IF c <= Len(line) /\ (r >= 1 \/ w >= 1)
        THEN <<(IF r >= 1 THEN d + 1 + w ELSE d + w), c>>
        ELSE <<>>

\* WHATSAPP_MSG_RE.match(line) and its four groups.
WHATSAPP_MSG_RE(line) ==
    LET comma == DateComma(line)
        t0 == SkipSpace(line, comma + 1)
        q == TimeEnd(line, t0)
        d == DashAt(line, q)
        span == SenderSpan(line, d)
    IN  IF comma = 0 \/ q = 0 \/ d = 0 \/ span = <<>>
        THEN NoMatch
        ELSE [matched |-> TRUE,
              date_str |-> Slice(line, 1, comma - 1),
              time_str |-> Slice(line, t0, q - 1),
              sender |-> Slice(line, span[1], span[2] - 1),
              \* \s*(.*)$
              text |-> Slice(line, SkipSpace(line, span[2] + 1), Len(line))]

\* --------------------------------------------------------------- AUDIO_RE
AudioExts ==
    { <<"o", "p", "u", "s">>, <<"o", "g", "g">>, <<"m", "p", "3">>,
      <<"m", "4", "a">>, <<"a", "a", "c">>, <<"w", "a", "v">> }

\* The length of the audio extension that starts at position i, or 0.
ExtLen(s, i) ==
    LET hit == { e \in AudioExts :
                   \A j \in 1..Len(e) : Lower(At(s, i + j - 1)) = e[j] }
    IN  IF hit = {} THEN 0 ELSE Len(CHOOSE e \in hit : TRUE)

\* \S+\.(?:ext) tried with \S+ starting at q: the lengths k that \S+ may
\* keep so that a dot and an extension follow.
StemLens(s, q) ==
    { k \in 1..RunNot(s, q, Whitespace) :
        At(s, q + k) = "." /\ ExtLen(s, q + k + 1) > 0 }

SetMax(S) == CHOOSE x \in S : \A y \in S : y <= x
SetMin(S) == CHOOSE x \in S : \A y \in S : x <= y

\* The pattern tried at position p: group 1 as <<first, last>>, or <<>>.
\* <? takes a "<" when there is one and gives it back only if the rest
\* fails; \S+ keeps as much as it can.
AudioAt(s, p) ==
    LET withLt == IF At(s, p) = "<" THEN StemLens(s, p + 1) ELSE {}
        without == StemLens(s, p)
        q == IF withLt # {} THEN p + 1 ELSE p
        ks == IF withLt # {} THEN withLt ELSE without
        k == SetMax(ks)
    IN  IF ks = {} THEN <<>>
        ELSE <<q, q + k + ExtLen(s, q + k + 1)>>

\* AUDIO_RE.search(text): group 1 of the leftmost match, as an optional.
AUDIO_RE(text) ==
    LET starts == { p \in 1..Len(text) : AudioAt(text, p) # <<>> }
        g == AudioAt(text, SetMin(starts))
    IN  IF starts = {} THEN NoneVal
        ELSE Some(SubSeq(text, g[1], g[2]))

\* ------------------------------------------------------ dateparser.parse
\* The calendar of datetime: the days of a month.
IsLeap(y) == (y % 4 = 0 /\ y % 100 # 0) \/ y % 400 = 0
DaysIn(y, m) ==
    IF m = 2 THEN (IF IsLeap(y) THEN 29 ELSE 28)
    ELSE IF m \in {4, 6, 9, 11} THEN 30 ELSE 31

\* dateparser.parse(f"{date_str} {time_str}", dayfirst=True) on the strings
\* the header pattern lets through, with both date separators alike: the
\* datetime, or NoneVal where the library raises (the except of the caller).
\*  - three numbers: a first number above 31 is the year; otherwise the
\*    date is day, month, year when the first number is above 12 or the
\*    second is a possible month, and month, day, year when it is not;
\*  - a year written with one or two digits is taken in the current
\*    century (the years of the model are all within 50 years of today);
\*  - with am/pm the hour must be within 0..12; 12am is 0 and 1pm..11pm
\*    are 13..23;
\*  - building the datetime raises for a month, day, hour, minute or second
\*    out of range.
ParseDateTime(date_str, time_str) ==
    LET n1 == Run(date_str, 1, Digits)
        n2 == Run(date_str, n1 + 2, Digits)
        a  == Number(Slice(date_str, 1, n1))
        b  == Number(Slice(date_str, n1 + 2, n1 + 1 + n2))
        cs == Slice(date_str, n1 + n2 + 3, Len(date_str))
        c  == Number(cs)
        ymd == IF a > 31
               THEN (IF c <= 12 THEN <<a, c, b>> ELSE <<a, b, c>>)
               ELSE IF a > 12 \/ b <= 12 THEN <<c, b, a>> ELSE <<c, a, b>>
        \* the year keeps its value when it was written with 3 or 4 digits
        yearWritten == IF a > 31 THEN Slice(date_str, 1, n1) ELSE cs
        year == IF Len(yearWritten) > 2 \/ ymd[1] >= 100
                THEN ymd[1] ELSE 2000 + ymd[1]
        month == ymd[2]
        day == ymd[3]
        nh == Run(time_str, 1, Digits)
        hour0 == Number(Slice(time_str, 1, nh))
        minute == Number(Slice(time_str, nh + 2, nh + 3))
        hasSec == At(time_str, nh + 4) = ":"
        second == IF hasSec THEN Number(Slice(time_str, nh + 5, nh + 6)) ELSE 0
        mer == Lower(At(time_str, Len(time_str) - 1))
        hasMer == Lower(At(time_str, Len(time_str))) = "m"
        isPm == hasMer /\ mer = "p"
        merOk == ~hasMer \/ hour0 <= 12
        hour == IF hasMer /\ isPm /\ hour0 < 12 THEN hour0 + 12
                ELSE IF hasMer /\ ~isPm /\ hour0 = 12 THEN 0
                ELSE hour0
        ok == /\ merOk
              /\ year >= 1 /\ year <= 9999
              /\ month >= 1 /\ month <= 12
              /\ day >= 1 /\ day <= DaysIn(year, month)
              /\ hour <= 23 /\ minute <= 59 /\ second <= 59
    IN  IF ok
        THEN Some([year |-> year, month |-> month, day |-> day,
                   hour |-> hour, minute |-> minute, second |-> second])
        ELSE NoneVal

\* ------------------------------------------------- parse_whatsapp_export
\* base_dir / name, as pathlib joins: an absolute name replaces base_dir.
PathJoin(base_dir, name) ==
    IF At(name, 1) = "/" THEN name ELSE base_dir \o <<"/">> \o name

\* AudioFile without the test of line 67: the path of a file that may not
\* exist.
AudioFileUnchecked(text, base_dir, disk) ==
    LET audio_match == AUDIO_RE(text)
    IN  IF IsSome(audio_match)
        THEN Some(PathJoin(base_dir, The(audio_match))) ELSE NoneVal

\* Lines 63-68: the audio file of a header line's body, if it is on disk.
AudioFile(text, base_dir, disk) ==
    LET audio_match == AUDIO_RE(text)
        candidate == PathJoin(base_dir, The(audio_match))
    IN  IF IsSome(audio_match) /\ candidate \in disk
        THEN Some(candidate) ELSE NoneVal

\* Lines 57-76: the Record a matching line starts.
NewMessage(m, base_dir, disk) ==
    [datetime |-> ParseDateTime(m.date_str, m.time_str),
     sender |-> Strip(m.sender),
     text |-> Strip(m.text),
     audio_file |-> AudioFile(m.text, base_dir, disk),
     transcript |-> NoneVal]

\* AppendLine without the strip() of line 79.
AppendLineUntrimmed(msg, line) ==
    [msg EXCEPT !.text = @ \o <<" ">> \o line]

\* Line 79: a continuation line appended to the Record in progress.
AppendLine(msg, line) ==
    [msg EXCEPT !.text = @ \o <<" ">> \o Strip(line)]

\* The parser before its first line (lines 44 and 50).
ParseStart == [current_msg |-> NoneVal, messages |-> <<>>]

\* Lines 55-56 and 81-82: the Record in progress goes to the output.
Flush(st) ==
    IF IsSome(st.current_msg)
    THEN Append(st.messages, The(st.current_msg))
    ELSE st.messages

\* ParseLine without lines 55-56: a new header line overwrites the Record
\* in progress.
ParseLineDropsPrevious(st, line, base_dir, disk) ==
    LET m == WHATSAPP_MSG_RE(line)
    IN  IF m.matched
        THEN [current_msg |-> Some(NewMessage(m, base_dir, disk)),
              messages |-> st.messages]
        ELSE IF IsSome(st.current_msg)
             THEN [st EXCEPT !.current_msg =
                                Some(AppendLine(The(st.current_msg), line))]
             ELSE st

\* Lines 52-79: the body of the loop, for one line.
ParseLine(st, line, base_dir, disk) ==
    LET m == WHATSAPP_MSG_RE(line)
    IN  IF m.matched
        THEN [current_msg |-> Some(NewMessage(m, base_dir, disk)),
              messages |-> Flush(st)]
        ELSE IF IsSome(st.current_msg)
             THEN [st EXCEPT !.current_msg =
                                Some(AppendLine(The(st.current_msg), line))]
             ELSE st

RECURSIVE ParseLoop(_, _, _, _)
ParseLoop(st, lines, base_dir, disk) ==
    IF lines = <<>> THEN st
    ELSE ParseLoop(ParseLine(st, Head(lines), base_dir, disk),
                   Tail(lines), base_dir, disk)

\* The whole function: the Records of a file's lines.
parse_whatsapp_export(lines, base_dir, disk) ==
    Flush(ParseLoop(ParseStart, lines, base_dir, disk))

\* --------------------------------------------------------- filter_messages
\* datetime.date(), and the order of dates: by year, then month, then day.
DateOf(dt) == <<dt.year, dt.month, dt.day>>

DateLE(a, b) ==
    \/ a[1] < b[1]
    \/ a[1] = b[1] /\ a[2] < b[2]
    \/ a[1] = b[1] /\ a[2] = b[2] /\ a[3] <= b[3]

\* KeepsMessage with the upper bound of line 95 exclusive.
KeepsMessageEndExclusive(msg, start, end, senders) ==
    /\ IsSome(msg.datetime)
    /\ DateLE(start, DateOf(The(msg.datetime)))
    /\ DateLE(DateOf(The(msg.datetime)), end)
    /\ DateOf(The(msg.datetime)) # end
    /\ ~(IsSome(senders) /\ The(senders) # {} /\ msg.sender \notin The(senders))

\* KeepsMessage without the test of lines 92-93: a Record without a
\* timestamp is kept when its sender is.
KeepsMessageUndated(msg, start, end, senders) ==
    /\ IsSome(msg.datetime) =>
          /\ DateLE(start, DateOf(The(msg.datetime)))
          /\ DateLE(DateOf(The(msg.datetime)), end)
    /\ ~(IsSome(senders) /\ The(senders) # {} /\ msg.sender \notin The(senders))

\* Lines 92-98: whether the loop appends msg. senders is None or the
\* collection of names given; an empty collection is false like None.
KeepsMessage(msg, start, end, senders) ==
    /\ IsSome(msg.datetime)
    /\ DateLE(start, DateOf(The(msg.datetime)))
    /\ DateLE(DateOf(The(msg.datetime)), end)
    /\ ~(IsSome(senders) /\ The(senders) # {} /\ msg.sender \notin The(senders))

\* Lines 87-100.  A list holds references to Records: messages is a
\* sequence of Record identities and store gives the Record of each, so
\* the result holds the Records of the input themselves.
RECURSIVE filter_messages(_, _, _, _, _)
filter_messages(messages, store, start, end, senders) ==
    IF messages = <<>> THEN <<>>
    ELSE LET msg == Head(messages)
             rest == filter_messages(Tail(messages), store, start, end, senders)
         IN  IF KeepsMessage(store[msg], start, end, senders)
             THEN <<msg>> \o rest
             ELSE rest

\* ----------------------------------------------------------------- text
\* Characters outside ASCII that the program's fixed texts hold: the bullet
\* (U+2022), a-umlaut, u-umlaut and the microphone (U+1F3A4).  NewLine is
\* "\n".
Bullet == "bullet"
AUmlaut == "a-umlaut"
UUmlaut == "u-umlaut"
Mic == "mic"
NewLine == "\n"

\* str(n) for a natural number, and n in at least two and four digits
\* (strftime's %d, %m, %H, %M and %Y).
DigitChar(d) ==
    CASE d = 0 -> "0" [] d = 1 -> "1" [] d = 2 -> "2" [] d = 3 -> "3"
      [] d = 4 -> "4" [] d = 5 -> "5" [] d = 6 -> "6" [] d = 7 -> "7"
      [] d = 8 -> "8" [] d = 9 -> "9"

RECURSIVE Str(_)
Str(n) == IF n < 10 THEN <<DigitChar(n)>>
          ELSE Str(n \div 10) \o <<DigitChar(n % 10)>>

RECURSIVE ZeroPad(_, _)
ZeroPad(text, width) ==
    IF Len(text) >= width THEN text ELSE ZeroPad(<<"0">> \o text, width)

\* strftime("%d.%m.%Y") and strftime("%d.%m.%Y %H:%M").
StrfDate(dt) ==
    ZeroPad(Str(dt.day), 2) \o <<".">> \o ZeroPad(Str(dt.month), 2)
        \o <<".">> \o ZeroPad(Str(dt.year), 4)

StrfMinute(dt) ==
    StrfDate(dt) \o <<" ">> \o ZeroPad(Str(dt.hour), 2) \o <<":">>
        \o ZeroPad(Str(dt.minute), 2)

\* sep.join(parts), and text.split(sep) for a separator of one character.
RECURSIVE Join(_, _)
Join(parts, sep) ==
    IF parts = <<>> THEN <<>>
    ELSE IF Len(parts) = 1 THEN parts[1]
    ELSE parts[1] \o <<sep>> \o Join(Tail(parts), sep)

\* The parts lie between the places of the separator, of which the k-th
\* is CutAt(text, sep, k); place 0 and the place after the end bound the
\* first and the last part.
CutAt(text, sep, k) ==
    LET cuts == { i \in 1..Len(text) : text[i] = sep }
    IN  IF k = 0 THEN 0
        ELSE IF k > Cardinality(cuts) THEN Len(text) + 1
        ELSE CHOOSE i \in cuts : Cardinality({ j \in cuts : j < i }) = k - 1

Split(text, sep) ==
    LET n == Cardinality({ i \in 1..Len(text) : text[i] = sep })
    IN  [k \in 1..(n + 1) |->
            SubSeq(text, CutAt(text, sep, k - 1) + 1, CutAt(text, sep, k) - 1)]

\* text.replace(ch, by) for a character ch: each half of the text is
\* replaced by itself.
RECURSIVE Replace(_, _, _)
Replace(text, ch, by) ==
    IF text = <<>> THEN <<>>
    ELSE IF Len(text) = 1 THEN (IF text[1] = ch THEN by ELSE text)
    ELSE Replace(SubSeq(text, 1, Len(text) \div 2), ch, by)
             \o Replace(SubSeq(text, Len(text) \div 2 + 1, Len(text)), ch, by)

\* A call that returned a value, and a call that raised an exception.
Returned(x) == [raised |-> FALSE, value |-> x]
Raised == [raised |-> TRUE, value |-> <<>>]

\* -------------------------------------------------------- generate_summary

\* Line 146: "Keine Nachrichten im gew(AUmlaut)hlten Zeitraum."
TextNoMessages ==
    <<"K", "e", "i", "n", "e", " ", "N", "a", "c", "h", "r", "i", "c", "h",
      "t", "e", "n", " ", "i", "m", " ", "g", "e", "w", AUmlaut, "h", "l",
      "t", "e", "n", " ", "Z", "e", "i", "t", "r", "a", "u", "m", ".">>

\* Line 159: "=== Zusammenfassung ==="
TextSummaryTitle ==
    <<"=", "=", "=", " ", "Z", "u", "s", "a", "m", "m", "e", "n", "f", "a",
      "s", "s", "u", "n", "g", " ", "=", "=", "=">>

\* Line 160: "Zeitraum: "
TextPeriod ==
    <<"Z", "e", "i", "t", "r", "a", "u", "m", ":", " ">>

\* Line 160: " (EnDash) "
TextTo ==
    <<" ", EnDash, " ">>

\* Line 161: "Nachrichten gesamt: "
TextTotal ==
    <<"N", "a", "c", "h", "r", "i", "c", "h", "t", "e", "n", " ", "g", "e",
      "s", "a", "m", "t", ":", " ">>

\* Line 162: "Sprachnachrichten: "
TextAudio ==
    <<"S", "p", "r", "a", "c", "h", "n", "a", "c", "h", "r", "i", "c", "h",
      "t", "e", "n", ":", " ">>

\* Line 164: "Aktivit(AUmlaut)t nach Teilnehmer:"
TextActivity ==
    <<"A", "k", "t", "i", "v", "i", "t", AUmlaut, "t", " ", "n", "a", "c",
      "h", " ", "T", "e", "i", "l", "n", "e", "h", "m", "e", "r", ":">>

\* Line 167: "  (Bullet) "
TextItem ==
    <<" ", " ", Bullet, " ">>

\* Line 167: ": "
TextCountOf ==
    <<":", " ">>

\* Line 167: " Nachrichten"
TextMessages ==
    <<" ", "N", "a", "c", "h", "r", "i", "c", "h", "t", "e", "n">>

\* Line 169: "Hinweis: F(UUmlaut)r eine detaillierte KI-Zusammenfassung kann ein lokales"
TextHint1 ==
    <<"H", "i", "n", "w", "e", "i", "s", ":", " ", "F", UUmlaut, "r", " ",
      "e", "i", "n", "e", " ", "d", "e", "t", "a", "i", "l", "l", "i", "e",
      "r", "t", "e", " ", "K", "I", "-", "Z", "u", "s", "a", "m", "m", "e",
      "n", "f", "a", "s", "s", "u", "n", "g", " ", "k", "a", "n", "n", " ",
      "e", "i", "n", " ", "l", "o", "k", "a", "l", "e", "s">>

\* Line 170: "         LLM (z. B. Ollama + LLaMA) in zuk(UUmlaut)nftigen Versionen eingebunden werden."
TextHint2 ==
    <<" ", " ", " ", " ", " ", " ", " ", " ", " ", "L", "L", "M", " ", "(",
      "z", ".", " ", "B", ".", " ", "O", "l", "l", "a", "m", "a", " ", "+",
      " ", "L", "L", "a", "M", "A", ")", " ", "i", "n", " ", "z", "u", "k",
      UUmlaut, "n", "f", "t", "i", "g", "e", "n", " ", "V", "e", "r", "s",
      "i", "o", "n", "e", "n", " ", "e", "i", "n", "g", "e", "b", "u", "n",
      "d", "e", "n", " ", "w", "e", "r", "d", "e", "n", ".">>

\* Lines 148-151: the dict senders, as the pairs (sender, count) in the
\* order the senders were first seen, after the Records of messages are
\* counted into it.
RECURSIVE CountSenders(_, _, _)
CountSenders(messages, store, senders) ==
    IF messages = <<>> THEN senders
    ELSE LET s == store[Head(messages)].sender
             counted ==
               IF \E k \in 1..Len(senders) : senders[k][1] = s
               THEN [k \in 1..Len(senders) |->
                       IF senders[k][1] = s
                       THEN <<s, senders[k][2] + 1>>
                       ELSE senders[k]]
               ELSE Append(senders, <<s, 1>>)
         IN  CountSenders(Tail(messages), store, counted)

\* InsertByCount that puts an item before the items of the same count.
RECURSIVE InsertByCountTiesFirst(_, _)
InsertByCountTiesFirst(ranked, item) ==
    IF ranked = <<>> THEN <<item>>
    ELSE IF Head(ranked)[2] > item[2]
         THEN <<Head(ranked)>> \o InsertByCountTiesFirst(Tail(ranked), item)
         ELSE <<item>> \o ranked

\* Line 166: sorted(..., key=lambda x: -x[1]) is stable: an item goes
\* after every item of a greater or the same count that came before it.
RECURSIVE InsertByCount(_, _)
InsertByCount(ranked, item) ==
    IF ranked = <<>> THEN <<item>>
    ELSE IF Head(ranked)[2] >= item[2]
         THEN <<Head(ranked)>> \o InsertByCount(Tail(ranked), item)
         ELSE <<item>> \o ranked

RECURSIVE SortedByCount(_, _)
SortedByCount(items, ranked) ==
    IF items = <<>> THEN ranked
    ELSE SortedByCount(Tail(items), InsertByCount(ranked, Head(items)))

\* Line 154.
RECURSIVE AudioCount(_, _)
AudioCount(messages, store) ==
    IF messages = <<>> THEN 0
    ELSE (IF IsSome(store[Head(messages)].audio_file) THEN 1 ELSE 0)
             + AudioCount(Tail(messages), store)

\* The order of timestamps: by the minute of the year, within a year.
DateTimeKey(dt) ==
    (((dt.month * 31 + dt.day) * 24 + dt.hour) * 60 + dt.minute) * 60
        + dt.second

DateTimeLE(a, b) ==
    \/ a.year < b.year
    \/ a.year = b.year /\ DateTimeKey(a) <= DateTimeKey(b)

\* SummaryPeriod as the earliest and the latest timestamp of the list.
SummaryPeriodMinMax(messages, store) ==
    LET stamps == { store[messages[k]].datetime : k \in 1..Len(messages) }
    IN  IF NoneVal \in stamps THEN <<NoneVal, NoneVal>>
        ELSE << CHOOSE a \in stamps :
                  \A b \in stamps : DateTimeLE(The(a), The(b)),
                CHOOSE a \in stamps :
                  \A b \in stamps : DateTimeLE(The(b), The(a)) >>

\* Lines 155-156: start_dt and end_dt of a list that is not empty.
SummaryPeriod(messages, store) ==
    << store[messages[1]].datetime, store[messages[Len(messages)]].datetime >>

\* Lines 166-167: the lines of the ranked list.
RankedLines(ranked) ==
    [k \in 1..Len(ranked) |->
        TextItem \o ranked[k][1] \o TextCountOf \o Str(ranked[k][2])
            \o TextMessages]

\* Lines 143-172.  messages is a sequence of Record identities and store
\* gives the Record of each.  strftime on a timestamp that is None raises
\* AttributeError (line 160).
generate_summary(messages, store) ==
    IF messages = <<>> THEN Returned(TextNoMessages)
    ELSE LET senders == CountSenders(messages, store, <<>>)
             period == SummaryPeriod(messages, store)
         IN  IF IsNone(period[1]) \/ IsNone(period[2]) THEN Raised
             ELSE Returned(Join(
                    << TextSummaryTitle,
                       TextPeriod \o StrfMinute(The(period[1])) \o TextTo
                           \o StrfMinute(The(period[2])),
                       TextTotal \o Str(Len(messages)),
                       TextAudio \o Str(AudioCount(messages, store)),
                       <<>>,
                       TextActivity >>
                    \o RankedLines(SortedByCount(senders, <<>>))
                    \o << <<>>, TextHint1, TextHint2 >>,
                    NewLine))

\* --------------------------------------------------------------- export_pdf

\* Line 199: "WhatsApp Analyse"
TextDocTitle ==
    <<"W", "h", "a", "t", "s", "A", "p", "p", " ", "A", "n", "a", "l", "y",
      "s", "e">>

\* Line 203: " | "
TextBar ==
    <<" ", "|", " ">>

\* Line 208: "<b>"
TextBoldOpen ==
    <<"<", "b", ">">>

\* Line 208: "</b> <font size='8' color='grey'>"
TextBoldCloseFontOpen ==
    <<"<", "/", "b", ">", " ", "<", "f", "o", "n", "t", " ", "s", "i", "z",
      "e", "=", "'", "8", "'", " ", "c", "o", "l", "o", "r", "=", "'", "g",
      "r", "e", "y", "'", ">">>

\* Line 208: "</font>"
TextFontClose ==
    <<"<", "/", "f", "o", "n", "t", ">">>

\* Line 213: "(Mic) <i>"
TextTranscriptOpen ==
    <<Mic, " ", "<", "i", ">">>

\* Line 213: "</i>"
TextTranscriptClose ==
    <<"<", "/", "i", ">">>

\* Line 215: "(Mic) [Sprachnachricht (EnDash) nicht transkribiert]"
TextNotTranscribed ==
    <<Mic, " ", "[", "S", "p", "r", "a", "c", "h", "n", "a", "c", "h", "r",
      "i", "c", "h", "t", " ", EnDash, " ", "n", "i", "c", "h", "t", " ",
      "t", "r", "a", "n", "s", "k", "r", "i", "b", "i", "e", "r", "t", "]">>

\* Line 217: "&amp;"
TextAmp ==
    <<"&", "a", "m", "p", ";">>

\* Line 217: "&lt;"
TextLt ==
    <<"&", "l", "t", ";">>

\* Line 217: "&gt;"
TextGt ==
    <<"&", "g", "t", ";">>

\* Line 224: "Zusammenfassung"
TextSummaryHeading ==
    <<"Z", "u", "s", "a", "m", "m", "e", "n", "f", "a", "s", "s", "u", "n",
      "g">>

\* Line 227: "&nbsp;"
TextNbsp ==
    <<"&", "n", "b", "s", "p", ";">>

\* The flowables of the story.
Paragraph(text, style) == [flowable |-> "Paragraph", text |-> text, style |-> style]
Spacer == [flowable |-> "Spacer", text |-> <<>>, style |-> "none"]

\* Whether Python takes an optional text for true: it is neither None nor
\* the empty string (lines 212 and 222).
Truthy(o) == IsSome(o) /\ The(o) # <<>>

\* Escape with "&" replaced last.
EscapeAmpLast(text) ==
    Replace(Replace(Replace(text, "<", TextLt), ">", TextGt), "&", TextAmp)

\* Lines 217 and 226: the three replacements, "&" first.
Escape(text) ==
    Replace(Replace(Replace(text, "&", TextAmp), "<", TextLt), ">", TextGt)

\* Lines 207-209: a Record's header line.
HeaderParagraph(msg) ==
    Paragraph(TextBoldOpen \o msg.sender \o TextBoldCloseFontOpen
                  \o (IF IsSome(msg.datetime)
                      THEN StrfMinute(The(msg.datetime)) ELSE <<>>)
                  \o TextFontClose,
              "msg")

\* Lines 211-218: a Record's content.
ContentParagraph(msg) ==
    IF IsSome(msg.audio_file)
    THEN IF Truthy(msg.transcript)
         THEN Paragraph(TextTranscriptOpen \o The(msg.transcript)
                            \o TextTranscriptClose, "transcript")
         ELSE Paragraph(TextNotTranscribed, "transcript")
    ELSE Paragraph(Escape(msg.text), "msg")

\* Lines 206-220: the flowables of the Records.
RECURSIVE MessageFlowables(_, _)
MessageFlowables(messages, store) ==
    IF messages = <<>> THEN <<>>
    ELSE << HeaderParagraph(store[Head(messages)]),
            ContentParagraph(store[Head(messages)]),
            Spacer >>
         \o MessageFlowables(Tail(messages), store)

\* Lines 225-227: the paragraphs of the summary's lines.
SummaryParagraphs(summary) ==
    LET ls == Split(summary, NewLine)
    IN  [k \in 1..Len(ls) |->
            Paragraph(IF Escape(ls[k]) = <<>> THEN TextNbsp ELSE Escape(ls[k]),
                      "summary")]

\* Lines 179-229: the story handed to doc.build, or the exception of
\* lines 201-202: strftime on a timestamp that is None raises
\* AttributeError.  summary is None or a text.
export_pdf(messages, store, summary) ==
    IF /\ messages # <<>>
       /\ \/ IsNone(store[messages[1]].datetime)
          \/ IsNone(store[messages[Len(messages)]].datetime)
    THEN Raised
    ELSE Returned(
           << Paragraph(TextDocTitle, "title") >>
           \o (IF messages # <<>>
               THEN << Paragraph(
                         TextPeriod
                           \o StrfDate(The(store[messages[1]].datetime))
                           \o TextTo
                           \o StrfDate(The(store[messages[Len(messages)]].datetime))
                           \o TextBar \o Str(Len(messages)) \o TextMessages,
                         "meta") >>
               ELSE <<>>)
           \o << Spacer >>
           \o MessageFlowables(messages, store)
           \o (IF Truthy(summary)
               THEN << Spacer, Paragraph(TextSummaryHeading, "title") >>
                    \o SummaryParagraphs(The(summary))
               ELSE <<>>))

\* ------------------------------------------------------- the input files
\* "1.2.21, 9:05 - a: hi": a header line
LineHello ==
    <<"1", ".", "2", ".", "2", "1", ",", " ", "9", ":", "0", "5", " ", "-",
      " ", "a", ":", " ", "h", "i">>

\* "3/2/21, 10:15:07 PM - b b:  <v.OPUS> ": slashes, seconds, PM, a body in blanks
LineVoice ==
    <<"3", "/", "2", "/", "2", "1", ",", " ", "1", "0", ":", "1", "5", ":",
      "0", "7", " ", "P", "M", " ", "-", " ", "b", " ", "b", ":", " ", " ",
      "<", "v", ".", "O", "P", "U", "S", ">", " ">>

\* "31.2.2021,1:00(U+2013)a : x.mp3 y.ogg": no blanks, 31 February, two file names
LineBadDate ==
    <<"3", "1", ".", "2", ".", "2", "0", "2", "1", ",", "1", ":", "0", "0",
      EnDash, "a", " ", ":", " ", "x", ".", "m", "p", "3", " ", "y", ".",
      "o", "g", "g">>

\* " w.ogg  z": a continuation line naming a file
LineMore ==
    <<" ", "w", ".", "o", "g", "g", " ", " ", "z">>

\* "1.2.21, 9:05 a: no": no dash, so not a header line
LineNoDash ==
    <<"1", ".", "2", ".", "2", "1", ",", " ", "9", ":", "0", "5", " ", "a",
      ":", " ", "n", "o">>

\* the empty line
LineEmpty ==
    <<>>

\* "1.2.21, 9:05 - : hi": a header line with a blank for the sender
LineNoName ==
    <<"1", ".", "2", ".", "2", "1", ",", " ", "9", ":", "0", "5", " ", "-",
      " ", ":", " ", "h", "i">>


\* The lines a transcript of the model is made of.
Lines ==
    {LineHello, LineVoice, LineBadDate, LineMore, LineNoDash, LineEmpty,
     LineNoName}

\* The directory of the transcript, and the audio files that may be in it.
\* x.mp3 is never there.
BaseDir == <<"d">>
AudioNamesOnDisk ==
    { <<"v", ".", "O", "P", "U", "S">>, <<"y", ".", "o", "g", "g">>,
      <<"w", ".", "o", "g", "g">> }
Disks == SUBSET { PathJoin(BaseDir, n) : n \in AudioNamesOnDisk }

\* All sequences over S of length n, and of length at most n.
RECURSIVE SeqsOfLen(_, _)
SeqsOfLen(S, n) ==
    IF n = 0 THEN {<<>>}
    ELSE { Append(q, x) : q \in SeqsOfLen(S, n - 1), x \in S }

SeqsUpTo(S, n) == UNION { SeqsOfLen(S, k) : k \in 0..n }

\* The Records and the arguments filter_messages is called with on its own.
FilterRecords ==
    { parse_whatsapp_export(<<l>>, BaseDir, {})[1] :
        l \in {LineHello, LineVoice, LineBadDate} }
FilterDates ==
    { <<2021, 1, 31>>, <<2021, 2, 1>>, <<2021, 2, 2>>, <<2021, 2, 3>>,
      <<2021, 2, 4>> }
FilterSenders ==
    {NoneVal} \cup { Some(S) : S \in SUBSET { <<"a">>, <<"A">>, <<"b", " ", "b">> } }

\* ----------------------------------------------------------------- state
VARIABLES
    disk,          \* the paths that exist on disk
    lines,         \* parse_whatsapp_export: the lines read from the file
    line_no,       \* ... the number of lines the loop has consumed
    parser,        \* ... current_msg and messages
    returned,      \* ... the returned list, once it has returned
    filter_args,   \* filter_messages: the arguments of a call
    filter_result, \* ... and what it returned, once it has returned
    heap,          \* the Records in memory, by identity (a position)
    messages,           \* WhatsAppAnalyzer.messages, as identities
    filtered_messages,  \* WhatsAppAnalyzer.filtered_messages, as identities
    btn_transcribe,     \* whether the button btn_transcribe is enabled
    worker_pc,          \* TranscriptionWorker: where its thread is
    worker_messages,    \* TranscriptionWorker.messages, as identities
    worker_idx,         \* ... the number of audio Records it has done
    emitted,            \* ... the signals it has emitted (name, index)
    queue,              \* the signals queued for the window's thread
    aborted,            \* whether an unhandled exception ended the process
    summary_text,       \* WhatsAppAnalyzer.summary_text
    summary_args,  \* generate_summary: the argument of a call
    summary_result, \* ... and what it returned or that it raised
    export_args,   \* export_pdf: the arguments of a call
    export_result  \* ... and the story it built or that it raised

parseVars == <<lines, line_no, parser, returned>>
filterVars == <<filter_args, filter_result>>
workerVars == <<worker_pc, worker_messages, worker_idx, emitted>>
reportVars == <<summary_args, summary_result, export_args, export_result>>
guiVars ==
    <<heap, messages, filtered_messages, btn_transcribe, workerVars,
      queue, aborted, summary_text>>
vars == <<disk, parseVars, filterVars, reportVars, guiVars>>

\* No parse under way, no call of the filter under way.
ParseIdle ==
    /\ lines = <<>>
    /\ line_no = 0
    /\ parser = ParseStart
    /\ returned = NoneVal

NoArgs ==
    [store |-> <<>>, messages |-> <<>>, start |-> <<0, 0, 0>>,
     end |-> <<0, 0, 0>>, senders |-> NoneVal]

FilterIdle ==
    /\ filter_args = NoArgs
    /\ filter_result = NoneVal

\* No call of generate_summary or export_pdf under way.
NoList == [store |-> <<>>, messages |-> <<>>]
NoExport == [store |-> <<>>, messages |-> <<>>, summary |-> NoneVal]

SummaryIdle ==
    /\ summary_args = NoList
    /\ summary_result = NoneVal

ExportIdle ==
    /\ export_args = NoExport
    /\ export_result = NoneVal

\* "Alle", the first item of combo_sender (lines 280 and 340).
Alle == <<"A", "l", "l", "e">>

\* The day the window is opened, and the day 30 days before it: what the
\* date widgets show at first (lines 269 and 275).
Today == <<2021, 2, 3>>
ThirtyDaysAgo == <<2021, 1, 4>>

\* The transcript files the user may open.
FileChat == <<LineHello, LineVoice>>
FileVoices == <<LineVoice, LineVoice>>
Files == {FileChat, FileVoices}

\* The memory of Records.  A Record lives while a list that is in use
\* holds it: messages, filtered_messages or the list of the worker.  The
\* Records of a newly parsed file get identities that no living Record
\* has, and there is room for the Records of the file in the window and
\* for those of an earlier file that the worker still holds.
HeapSize == 2 * SetMax({ Len(f) : f \in Files })
Freed ==
    [datetime |-> NoneVal, sender |-> <<>>, text |-> <<>>,
     audio_file |-> NoneVal, transcript |-> NoneVal]

Range(q) == { q[i] : i \in 1..Len(q) }

\* The n lowest identities outside the set live, in order.
RECURSIVE Fresh(_, _, _)
Fresh(live, n, from) ==
    IF n = 0 THEN <<>>
    ELSE IF from \in live THEN Fresh(live, n, from + 1)
         ELSE <<from>> \o Fresh(live, n - 1, from + 1)

\* The memory from identity id on, with the Records new at the identities
\* ids, the Records of the set live kept, and every other Record collected.
RECURSIVE CollectedFrom(_, _, _, _, _)
CollectedFrom(store, live, ids, new, id) ==
    IF id > HeapSize THEN <<>>
    ELSE << IF \E k \in 1..Len(ids) : ids[k] = id
            THEN new[CHOOSE k \in 1..Len(ids) : ids[k] = id]
            ELSE IF id \in live THEN store[id] ELSE Freed >>
         \o CollectedFrom(store, live, ids, new, id + 1)

Collected(store, live, ids, new) == CollectedFrom(store, live, ids, new, 1)

\* WhatsAppAnalyzer.__init__ and _build_ui (lines 237-325): the window
\* before any file is loaded.
WindowInit ==
    /\ heap = Collected(<<>>, {}, <<>>, <<>>)
    /\ messages = <<>>
    /\ filtered_messages = <<>>
    /\ btn_transcribe = TRUE
    /\ worker_pc = "none"
    /\ worker_messages = <<>>
    /\ worker_idx = 0
    /\ emitted = <<>>
    /\ queue = <<>>
    /\ aborted = FALSE
    /\ summary_text = NoneVal

\* ------------------------------------------------ the parser, line by line
ParseInit ==
    /\ disk \in Disks
    /\ lines \in SeqsUpTo(Lines, MaxLines)
    /\ line_no = 0
    /\ parser = ParseStart
    /\ returned = NoneVal
    /\ FilterIdle
    /\ SummaryIdle
    /\ ExportIdle
    /\ WindowInit

\* One turn of the loop of lines 51-79.
ParseNextLine ==
    /\ IsNone(returned)
    /\ line_no < Len(lines)
    /\ line_no' = line_no + 1
    /\ parser' = ParseLine(parser, lines[line_no + 1], BaseDir, disk)
    /\ UNCHANGED <<disk, lines, returned, filterVars, reportVars, guiVars>>

\* Lines 81-84, after the last line.
ParseReturn ==
    /\ IsNone(returned)
    /\ line_no = Len(lines)
    /\ returned' = Some(Flush(parser))
    /\ UNCHANGED <<disk, lines, line_no, parser, filterVars, reportVars,
                   guiVars>>

ParseNext == ParseNextLine \/ ParseReturn

SpecParse == ParseInit /\ [][ParseNext]_vars

\* ------------------------------------------------ the filter, call by call
\* A call of filter_messages on a list of up to MaxMsgs Records; the
\* Record at position i of the list has identity i.
FilterInit ==
    /\ disk = {}
    /\ ParseIdle
    /\ SummaryIdle
    /\ ExportIdle
    /\ WindowInit
    /\ \E store \in SeqsUpTo(FilterRecords, MaxMsgs) :
       \E start \in FilterDates, end \in FilterDates :
       \E senders \in FilterSenders :
          filter_args = [store |-> store,
                         messages |-> [i \in 1..Len(store) |-> i],
                         start |-> start, end |-> end, senders |-> senders]
    /\ filter_result = NoneVal

FilterCall ==
    /\ IsNone(filter_result)
    /\ filter_result' =
          Some(filter_messages(filter_args.messages, filter_args.store,
                               filter_args.start, filter_args.end,
                               filter_args.senders))
    /\ UNCHANGED <<disk, parseVars, filter_args, reportVars, guiVars>>

FilterNext == FilterCall

SpecFilter == FilterInit /\ [][FilterNext]_vars

\* ------------------------------------------ the summary, call by call
\* The Records generate_summary is called on by itself.  The program
\* calls it on filtered_messages (line 406), and filter_messages returns
\* no Record without a timestamp, in the order of the file, which need not
\* be the order of time.
SummaryStamp(day, hour) ==
    Some([year |-> 2021, month |-> 2, day |-> day, hour |-> hour,
          minute |-> 5, second |-> 0])

SummaryRecords ==
    { [datetime |-> SummaryStamp(d, 9), sender |-> n, text |-> <<"h", "i">>,
       audio_file |-> NoneVal, transcript |-> NoneVal] :
        d \in {1, 12}, n \in { <<"a">>, <<"B">>, <<"c", "&">> } }
    \cup
    { [datetime |-> SummaryStamp(3, 22), sender |-> <<"a">>,
       text |-> <<"v", ".", "o", "g", "g">>,
       audio_file |-> Some(PathJoin(BaseDir, <<"v", ".", "o", "g", "g">>)),
       transcript |-> NoneVal] }

SummaryInit ==
    /\ disk = {}
    /\ ParseIdle
    /\ FilterIdle
    /\ ExportIdle
    /\ WindowInit
    /\ \E store \in SeqsUpTo(SummaryRecords, MaxSummary) :
          summary_args = [store |-> store,
                          messages |-> [i \in 1..Len(store) |-> i]]
    /\ summary_result = NoneVal

SummaryCall ==
    /\ IsNone(summary_result)
    /\ summary_result' =
          Some(generate_summary(summary_args.messages, summary_args.store))
    /\ UNCHANGED <<disk, parseVars, filterVars, summary_args, export_args,
                   export_result, guiVars>>

SummaryNext == SummaryCall

SpecSummary == SummaryInit /\ [][SummaryNext]_vars

\* ------------------------------------------- a file parsed and then filtered
\* Lines 335 and 351: the list parse_whatsapp_export returned is what
\* filter_messages is called on, for any dates and sender selection.
ImportInit ==
    /\ disk \in {{}, UNION Disks}
    /\ lines \in SeqsUpTo(Lines, MaxImport)
    /\ line_no = 0
    /\ parser = ParseStart
    /\ returned = NoneVal
    /\ FilterIdle
    /\ SummaryIdle
    /\ ExportIdle
    /\ WindowInit

FilterReturned ==
    /\ IsSome(returned)
    /\ IsNone(filter_result)
    /\ \E start \in FilterDates, end \in FilterDates :
       \E senders \in FilterSenders :
       \E ids \in {[i \in 1..Len(The(returned)) |-> i]} :
          /\ filter_args' = [store |-> The(returned), messages |-> ids,
                             start |-> start, end |-> end,
                             senders |-> senders]
          /\ filter_result' =
                Some(filter_messages(ids, The(returned), start, end, senders))
    /\ UNCHANGED <<disk, parseVars, reportVars, guiVars>>

ImportNext == ParseNextLine \/ ParseReturn \/ FilterReturned

SpecImport == ImportInit /\ [][ImportNext]_vars

\* ------------------------------------------------ the window and the worker
\* What the two date widgets may show by the time a handler reads them:
\* the 30 days they show at first, or the user has set date_from to today.
DateRanges == { <<ThirtyDaysAgo, Today>>, <<Today, Today>> }

\* What model.transcribe may return, stripped (line 132), and what the
\* exceptions it may raise say.
RecognizedTexts == { <<"o", "k">> }
TranscribeErrors == { <<"e", "o", "f">> }

\* Line 134: f"[Transkriptionsfehler: {e}]".
ErrorText(e) ==
    <<"[", "T", "r", "a", "n", "s", "k", "r", "i", "p", "t", "i", "o", "n",
      "s", "f", "e", "h", "l", "e", "r", ":", " ">> \o e \o <<"]">>

\* Lines 338-342: the items of combo_sender.
ComboItems == {Alle} \cup { heap[messages[i]].sender : i \in 1..Len(messages) }

\* Lines 347-351: the filtered list for the state of the widgets.
Refiltered(msgs, store, from, to, sender_sel) ==
    filter_messages(msgs, store, from, to,
                    IF sender_sel = Alle THEN NoneVal ELSE Some({sender_sel}))

\* _load_file without the call of line 344: the filtered list is left as
\* it was.
_load_file_keeps_filtered ==
    /\ ~aborted
    /\ \E f \in Files :
       \E new \in {parse_whatsapp_export(f, BaseDir, disk)} :
       \E live \in {Range(worker_messages) \cup Range(filtered_messages)} :
       \E ids \in {Fresh(live, Len(new), 1)} :
          /\ heap' = Collected(heap, live, ids, new)
          /\ messages' = ids
    /\ UNCHANGED <<disk, parseVars, filterVars, reportVars, summary_text,
                   filtered_messages,
                   btn_transcribe, workerVars, queue, aborted>>

\* Lines 329-344, for a file that was chosen (with none chosen the handler
\* returns at line 334 and nothing changes): the file is parsed into new
\* Records, combo_sender is filled again and shows "Alle", and the filter
\* is applied for the dates the two date widgets show.  The Records of the
\* file loaded before are dropped, but for those the worker holds.
_load_file ==
    /\ ~aborted
    /\ \E f \in Files :
       \E new \in {parse_whatsapp_export(f, BaseDir, disk)} :
       \E ids \in {Fresh(Range(worker_messages), Len(new), 1)} :
       \E store \in {Collected(heap, Range(worker_messages), ids, new)} :
       \E dates \in DateRanges :
          /\ heap' = store
          /\ messages' = ids
          /\ filtered_messages' =
                Refiltered(ids, store, dates[1], dates[2], Alle)
    /\ UNCHANGED <<disk, parseVars, filterVars, reportVars, summary_text,
                   btn_transcribe, workerVars,
                   queue, aborted>>

\* Lines 346-353, for the dates the two date widgets show and the item
\* of combo_sender that is selected.
_apply_filter ==
    /\ ~aborted
    /\ \E dates \in DateRanges, combo_sender \in ComboItems :
          filtered_messages' =
              Refiltered(messages, heap, dates[1], dates[2], combo_sender)
    /\ UNCHANGED <<disk, parseVars, filterVars, reportVars, summary_text,
                   heap, messages,
                   btn_transcribe, workerVars, queue, aborted>>

\* AudioMsgs without the condition of line 125: every Record of the list.
AudioMsgsUnfiltered(msgs, store) ==
    [k \in 1..Len(msgs) |-> <<k - 1, msgs[k]>>]

\* Line 125: the pairs (index, Record) of the Records of a list that have
\* an audio file; an index counts from 0.
RECURSIVE AudioMsgsFrom(_, _, _)
AudioMsgsFrom(msgs, store, k) ==
    IF k > Len(msgs) THEN <<>>
    ELSE IF IsSome(store[msgs[k]].audio_file)
         THEN << <<k - 1, msgs[k]>> >> \o AudioMsgsFrom(msgs, store, k + 1)
         ELSE AudioMsgsFrom(msgs, store, k + 1)

AudioMsgs(msgs, store) == AudioMsgsFrom(msgs, store, 1)

\* Lines 367-386.  The button cannot be clicked while it is disabled.  The
\* worker is given the list filtered_messages itself; the window never
\* changes that list, it only replaces it (line 351).  The worker made
\* before is dropped, and with it the Records only its list held.
_start_transcription ==
    /\ ~aborted
    /\ btn_transcribe
    /\ IF filtered_messages = <<>>
          \/ AudioMsgs(filtered_messages, heap) = <<>>
       THEN UNCHANGED <<heap, btn_transcribe, workerVars>>
       ELSE /\ btn_transcribe' = FALSE
            /\ worker_messages' = filtered_messages
            /\ worker_pc' = "start"
            /\ worker_idx' = 0
            /\ emitted' = <<>>
            /\ heap' = Collected(heap, Range(messages), <<>>, <<>>)
    /\ UNCHANGED <<disk, parseVars, filterVars, reportVars, summary_text,
                   messages, filtered_messages,
                   queue, aborted>>

\* A signal emitted in the worker's thread is queued for the window's
\* thread, which runs the connected slot later, in the order of emission.
Emit(sig) ==
    /\ emitted' = Append(emitted, <<sig.sig, sig.index>>)
    /\ queue' = Append(queue, sig)

Signal(name, index, text) == [sig |-> name, index |-> index, text |-> text]

\* Lines 118-123: the speech model loads, or the worker emits error and
\* returns.
WorkerLoad ==
    /\ ~aborted
    /\ worker_pc = "start"
    /\ \/ /\ worker_pc' = "run"
          /\ UNCHANGED <<emitted, queue>>
       \/ /\ Emit(Signal("error", 0, <<>>))
          /\ worker_pc' = "returned"
    /\ UNCHANGED <<disk, parseVars, filterVars, reportVars, summary_text,
                   heap, messages,
                   filtered_messages, btn_transcribe, worker_messages,
                   worker_idx, aborted>>

\* Lines 128-134: one turn of the loop: the text recognized, or the
\* placeholder for the exception raised, is emitted with the Record's
\* index in the worker's list.
WorkerTranscribe ==
    /\ ~aborted
    /\ worker_pc = "run"
    /\ worker_idx < Len(AudioMsgs(worker_messages, heap))
    /\ LET i == AudioMsgs(worker_messages, heap)[worker_idx + 1][1]
       IN  \E text \in RecognizedTexts \cup { ErrorText(e) : e \in TranscribeErrors } :
             Emit(Signal("message_done", i, text))
    /\ worker_idx' = worker_idx + 1
    /\ UNCHANGED <<disk, parseVars, filterVars, reportVars, summary_text,
                   heap, messages,
                   filtered_messages, btn_transcribe, worker_pc,
                   worker_messages, aborted>>

\* Line 136.
WorkerFinish ==
    /\ ~aborted
    /\ worker_pc = "run"
    /\ worker_idx = Len(AudioMsgs(worker_messages, heap))
    /\ Emit(Signal("finished", 0, <<>>))
    /\ worker_pc' = "returned"
    /\ UNCHANGED <<disk, parseVars, filterVars, reportVars, summary_text,
                   heap, messages,
                   filtered_messages, btn_transcribe, worker_messages,
                   worker_idx, aborted>>

\* Lines 388-394, run for the signal at the head of the queue.  An index
\* past the end of filtered_messages raises IndexError in the slot, which
\* nothing catches: PyQt ends the process.  Otherwise the Record at that
\* index of filtered_messages gets the text; the loop of lines 392-394
\* finds that same Record in messages and writes the same text to it.
_on_transcript ==
    /\ ~aborted
    /\ queue # <<>>
    /\ Head(queue).sig = "message_done"
    /\ queue' = Tail(queue)
    /\ LET index == Head(queue).index
           text == Head(queue).text
       IN  IF index >= Len(filtered_messages)
           THEN /\ aborted' = TRUE
                /\ UNCHANGED heap
           ELSE /\ heap' = [heap EXCEPT
                              ![filtered_messages[index + 1]].transcript = Some(text)]
                /\ UNCHANGED aborted
    /\ UNCHANGED <<disk, parseVars, filterVars, reportVars, summary_text,
                   messages, filtered_messages,
                   btn_transcribe, workerVars>>

\* Lines 396-400.
_on_transcription_done ==
    /\ ~aborted
    /\ queue # <<>>
    /\ Head(queue).sig = "finished"
    /\ queue' = Tail(queue)
    /\ btn_transcribe' = TRUE
    /\ UNCHANGED <<disk, parseVars, filterVars, reportVars, summary_text,
                   heap, messages,
                   filtered_messages, workerVars, aborted>>

\* Line 385: the error is shown in a message box.
OnWorkerError ==
    /\ ~aborted
    /\ queue # <<>>
    /\ Head(queue).sig = "error"
    /\ queue' = Tail(queue)
    /\ UNCHANGED <<disk, parseVars, filterVars, reportVars, summary_text,
                   heap, messages,
                   filtered_messages, btn_transcribe, workerVars, aborted>>

WorkerStep == WorkerLoad \/ WorkerTranscribe \/ WorkerFinish
Deliver == _on_transcript \/ _on_transcription_done \/ OnWorkerError

Init ==
    /\ disk \in {{}, UNION Disks}
    /\ ParseIdle
    /\ FilterIdle
    /\ SummaryIdle
    /\ ExportIdle
    /\ WindowInit

Next ==
    \/ _load_file
    \/ _apply_filter
    \/ _start_transcription
    \/ WorkerStep
    \/ Deliver

Spec == Init /\ [][Next]_vars

\* ---------------------------------------- the window without the worker
\* Lines 402-408.  With no message in filtered_messages the handler warns
\* and returns (lines 403-405) and nothing changes; otherwise summary_text
\* becomes the summary of filtered_messages as it is at this click.  An
\* exception of generate_summary leaves the slot unhandled.
_create_summary ==
    /\ ~aborted
    /\ filtered_messages # <<>>
    /\ \E result \in {generate_summary(filtered_messages, heap)} :
          IF result.raised
          THEN aborted' = TRUE /\ UNCHANGED summary_text
          ELSE summary_text' = Some(result.value) /\ UNCHANGED aborted
    /\ UNCHANGED <<disk, parseVars, filterVars, reportVars, heap, messages,
                   filtered_messages, btn_transcribe, workerVars, queue>>

\* Lines 410-423, for a path that was chosen (with no message in
\* filtered_messages the handler returns at line 413, with no path at
\* line 418): export_pdf is called on filtered_messages and on
\* summary_text as they are at this click; its exception is caught at
\* line 422.
_export_pdf ==
    /\ ~aborted
    /\ filtered_messages # <<>>
    /\ export_args' = [store |-> heap, messages |-> filtered_messages,
                       summary |-> summary_text]
    /\ export_result' =
          Some(export_pdf(filtered_messages, heap, summary_text))
    /\ UNCHANGED <<disk, parseVars, filterVars, summary_args, summary_result,
                   guiVars>>

WindowNext ==
    \/ _load_file
    \/ _apply_filter
    \/ _create_summary
    \/ _export_pdf

SpecWindow == Init /\ [][WindowNext]_vars

\* ------------------------------------------ the exporter, call by call
\* The Records export_pdf is called on by itself: texts, senders and
\* transcripts with the characters of markup, a Record without a timestamp,
\* and voice messages without a transcript, with a recognized text, with
\* the empty text (result["text"].strip() of silence, line 132) and with
\* the placeholder of line 134 for an exception that says "<e>".
ExportRecord(stamp, sender, text, audio, transcript) ==
    [datetime |-> stamp, sender |-> sender, text |-> text,
     audio_file |-> IF audio THEN Some(PathJoin(BaseDir, <<"v", ".", "o", "g", "g">>))
                    ELSE NoneVal,
     transcript |-> transcript]

RecordPlain ==
    ExportRecord(SummaryStamp(1, 9), <<"a">>,
                 <<"1", "<", "2", "&", "3", ">", "2">>, FALSE, NoneVal)
RecordUndated ==
    ExportRecord(NoneVal, <<"a">>, <<"&", "l", "t", ";">>, FALSE, NoneVal)
RecordMarkupSender ==
    ExportRecord(SummaryStamp(1, 9), <<"<", "b">>, <<"h", "i">>, FALSE, NoneVal)
RecordVoice ==
    ExportRecord(SummaryStamp(3, 22), <<"b", " ", "b">>, <<>>, TRUE, NoneVal)
RecordVoiceText ==
    ExportRecord(SummaryStamp(3, 22), <<"b", " ", "b">>, <<>>, TRUE,
                 Some(<<"o", "k">>))
RecordVoiceSilent ==
    ExportRecord(SummaryStamp(3, 22), <<"b", " ", "b">>, <<>>, TRUE, Some(<<>>))
RecordVoiceFailed ==
    ExportRecord(SummaryStamp(3, 22), <<"b", " ", "b">>, <<>>, TRUE,
                 Some(ErrorText(<<"<", "e", ">">>)))

ExportRecords ==
    {RecordPlain, RecordUndated, RecordMarkupSender, RecordVoice,
     RecordVoiceText, RecordVoiceSilent, RecordVoiceFailed}

\* The summaries it is called with: None, the empty text, and the lines
\* "a&b", "" and "<c>".
ExportSummaries ==
    { NoneVal, Some(<<>>),
      Some(<<"a", "&", "b", NewLine, NewLine, "<", "c", ">">>) }

ExportInit ==
    /\ disk = {}
    /\ ParseIdle
    /\ FilterIdle
    /\ SummaryIdle
    /\ WindowInit
    /\ \E store \in SeqsUpTo(ExportRecords, MaxExport) :
       \E summary \in ExportSummaries :
          export_args = [store |-> store,
                         messages |-> [i \in 1..Len(store) |-> i],
                         summary |-> summary]
    /\ export_result = NoneVal

ExportCall ==
    /\ IsNone(export_result)
    /\ export_result' =
          Some(export_pdf(export_args.messages, export_args.store,
                          export_args.summary))
    /\ UNCHANGED <<disk, parseVars, filterVars, summary_args, summary_result,
                   export_args, guiVars>>

ExportNext == ExportCall

SpecExport == ExportInit /\ [][ExportNext]_vars

\* ------------------------------------------------- claims about the parser
\* The positions of the lines that match the header pattern, in order.
RECURSIVE HeaderLinesFrom(_, _)
HeaderLinesFrom(ls, i) ==
    IF i > Len(ls) THEN <<>>
    ELSE IF WHATSAPP_MSG_RE(ls[i]).matched
         THEN <<i>> \o HeaderLinesFrom(ls, i + 1)
         ELSE HeaderLinesFrom(ls, i + 1)

HeaderLines(ls) == HeaderLinesFrom(ls, 1)

\* The line before the k-th header line's successor: the last line of the
\* k-th entry.
LastLineOf(ls, k) ==
    LET H == HeaderLines(ls)
    IN  IF k < Len(H) THEN H[k + 1] - 1 ELSE Len(ls)

IsPrefix(a, b) == Len(a) <= Len(b) /\ SubSeq(b, 1, Len(a)) = a

\* C1: the parser returns exactly one Record per line that matches the
\* header pattern, in the order of those lines, each with the trimmed sender
\* of its own line and a text that starts with the trimmed body of its own
\* line; so no continuation line makes a Record, the continuation lines
\* before the first header line are dropped, and the Record in progress at
\* the end of the input is returned too.
C1_OneRecordPerHeaderLine ==
    IsSome(returned) =>
        LET out == The(returned)
            H == HeaderLines(lines)
        IN  /\ Len(out) = Len(H)
            /\ \A k \in 1..Len(H) :
                 LET m == WHATSAPP_MSG_RE(lines[H[k]])
                 IN  /\ out[k].sender = Strip(m.sender)
                     /\ IsPrefix(Strip(m.text), out[k].text)

\* A transcript that starts with a continuation line and goes on with two
\* header lines has been parsed into two Records.
C1_Witness ==
    /\ IsSome(returned)
    /\ Len(lines) = 3
    /\ HeaderLines(lines) = <<2, 3>>
    /\ Len(The(returned)) = 2
    /\ The(returned)[1].sender # The(returned)[2].sender

\* The text the lines i..j add to an entry: for each, one space and the
\* trimmed line.
RECURSIVE Continuation(_, _, _)
Continuation(ls, i, j) ==
    IF i > j THEN <<>>
    ELSE <<" ">> \o Strip(ls[i]) \o Continuation(ls, i + 1, j)

\* C2: the text of the Record of a header line is the trimmed body of that
\* line followed, for each continuation line up to the next header line or
\* the end of the input, in order, by one space and the trimmed line; no
\* other Record gets any of that text.
C2_ContinuationMerged ==
    IsSome(returned) =>
        LET out == The(returned)
            H == HeaderLines(lines)
        IN  \A k \in 1..Min(Len(H), Len(out)) :
              out[k].text =
                  Strip(WHATSAPP_MSG_RE(lines[H[k]]).text)
                      \o Continuation(lines, H[k] + 1, LastLineOf(lines, k))

\* A header line followed by two continuation lines, one of them in
\* blanks, has been parsed into one Record.
C2_Witness ==
    /\ IsSome(returned)
    /\ HeaderLines(lines) = <<1>>
    /\ Len(lines) = 3
    /\ LineMore \in {lines[2], lines[3]}
    /\ Len(The(returned)) = 1
    /\ Len(The(returned)[1].text) > Len(Strip(WHATSAPP_MSG_RE(lines[1]).text)) + 2

\* The audio file names a text holds: its pieces without whitespace that
\* end in a dot and a recognized extension, whatever the case.
AudioNames(text) ==
    { SubSeq(text, i, j) : i \in 1..Len(text), j \in 1..Len(text) } \ {<<>>}

IsAudioName(n) ==
    /\ \A i \in 1..Len(n) : n[i] \notin Whitespace
    /\ \E e \in AudioExts :
         /\ Len(n) >= Len(e) + 2
         /\ n[Len(n) - Len(e)] = "."
         /\ \A j \in 1..Len(e) : Lower(n[Len(n) - Len(e) + j]) = e[j]

\* The paths of the audio files that a text names and that are on disk.
FilesNamedIn(text) ==
    { PathJoin(BaseDir, n) : n \in { x \in AudioNames(text) : IsAudioName(x) } }
        \cap disk

\* C9: a Record's audio_reference is set only to the path, in the
\* transcript's directory, of an audio file that the Record's text names
\* and that is on disk; a name whose file is missing never gives a path.
C9_AudioOnlyIfOnDisk ==
    IsSome(returned) =>
        \A k \in 1..Len(The(returned)) :
            LET r == The(returned)[k]
            IN  IsSome(r.audio_file) => The(r.audio_file) \in FilesNamedIn(r.text)

\* One Record names a file that is on disk and holds its path, another
\* names only files that are missing and holds none.
C9_Witness ==
    /\ IsSome(returned)
    /\ \E k \in 1..Len(The(returned)) : IsSome(The(returned)[k].audio_file)
    /\ \E k \in 1..Len(The(returned)) :
         LET r == The(returned)[k]
         IN  /\ IsNone(r.audio_file)
             /\ AUDIO_RE(r.text) # NoneVal
             /\ FilesNamedIn(r.text) = {}

\* C10: attachment detection looks at the assembled text: a Record whose
\* text, continuation lines included, names an audio file that is on disk
\* has its audio_reference set.
C10_AudioFromAssembledText ==
    IsSome(returned) =>
        \A k \in 1..Len(The(returned)) :
            LET r == The(returned)[k]
            IN  FilesNamedIn(r.text) # {} => IsSome(r.audio_file)

\* C18: every Record the parser returns has a sender that is not empty
\* and neither starts nor ends with whitespace.
C18_SenderNonEmptyTrimmed ==
    IsSome(returned) =>
        \A k \in 1..Len(The(returned)) :
            LET sender == The(returned)[k].sender
            IN  /\ sender # <<>>
                /\ sender[1] \notin Whitespace
                /\ sender[Len(sender)] \notin Whitespace

\* ------------------------------------------------- claims about the filter
\* The day number of a date in a calendar of 12 months of 31 days: dates
\* are in the order of their day numbers.
DayNumber(d) == (d[1] * 12 + d[2]) * 31 + d[3]

\* C3: filter_messages returns the Records of its input, in their order,
\* that have a timestamp, whose date is from start_date to end_date, both
\* included, and whose sender is one of the senders given when some are
\* given (None and no senders at all restrict nothing).
C3_FilterSelects ==
    IsSome(filter_result) =>
        LET out == The(filter_result)
            a == filter_args
            wanted ==
              { i \in 1..Len(a.store) :
                  /\ IsSome(a.store[i].datetime)
                  /\ DayNumber(a.start) <= DayNumber(DateOf(The(a.store[i].datetime)))
                  /\ DayNumber(DateOf(The(a.store[i].datetime))) <= DayNumber(a.end)
                  /\ \/ IsNone(a.senders)
                     \/ The(a.senders) = {}
                     \/ a.store[i].sender \in The(a.senders) }
        IN  /\ \A k \in 1..Len(out) : \A l \in 1..Len(out) :
                 k < l => out[k] < out[l]
            /\ { out[k] : k \in 1..Len(out) } = wanted

\* A call with a Record dated on start_date, a Record without a timestamp
\* and a Record dated on end_date, and with both senders given, has
\* returned the first and the last.
C3_Witness ==
    /\ IsSome(filter_result)
    /\ Len(filter_args.store) = 3
    /\ IsNone(filter_args.store[2].datetime)
    /\ IsSome(filter_args.store[1].datetime)
    /\ IsSome(filter_args.store[3].datetime)
    /\ DateOf(The(filter_args.store[1].datetime)) = filter_args.start
    /\ DateOf(The(filter_args.store[3].datetime)) = filter_args.end
    /\ filter_args.start # filter_args.end
    /\ filter_args.senders = Some({ <<"a">>, <<"b", " ", "b">> })
    /\ The(filter_result) = <<1, 3>>

\* ------------------------------------- claims about the window and the worker
\* C4: in every state the window can reach, whatever the user and the
\* worker did in whatever order, a Record has a transcript only if it has
\* an audio file.
C4_TranscriptOnlyOnAudio ==
    \A id \in 1..HeapSize :
        IsSome(heap[id].transcript) => IsSome(heap[id].audio_file)

\* A completion is delivered: the window takes a message_done signal off
\* the queue.
DeliversCompletion ==
    /\ queue # <<>>
    /\ Head(queue).sig = "message_done"
    /\ queue' = Tail(queue)

\* C5: a completion the worker emitted for the Record at an index of the
\* list it was started with is applied to that Record and to no other: the
\* delivery sets that Record's transcript to the text and changes nothing
\* else in memory, also when the filter was applied again or another file
\* was loaded since the worker started.
C5_CompletionAppliedToItsRecord ==
    [][ DeliversCompletion =>
          /\ ~aborted'
          /\ Head(queue).index < Len(worker_messages)
          /\ heap' = [heap EXCEPT
                        ![worker_messages[Head(queue).index + 1]].transcript =
                            Some(Head(queue).text)] ]_vars

\* C6: the filtered list holds Records of the full list themselves, not
\* copies: every element of filtered_messages is, by identity, an element
\* of messages, so a transcript written through filtered_messages is the
\* transcript of the Record at the corresponding position of messages.
C6_FilteredSharesRecords ==
    \A k \in 1..Len(filtered_messages) :
        \E j \in 1..Len(messages) :
            /\ messages[j] = filtered_messages[k]
            /\ heap[messages[j]].transcript =
                   heap[filtered_messages[k]].transcript

\* The filtered list is a part of the full list, at other positions, and a
\* delivered completion has written a transcript through it.
C6_Witness ==
    /\ ~aborted
    /\ Len(filtered_messages) = 1
    /\ Len(messages) = 2
    /\ filtered_messages[1] = messages[2]
    /\ worker_messages = filtered_messages
    /\ IsSome(heap[messages[2]].transcript)
    /\ IsNone(heap[messages[1]].transcript)

\* C7: a worker that was started emits one completion for every Record
\* with an audio file of the list it was given, and then finished; so when
\* its run has ended, that is what it has emitted.
C7_AllCompletionsThenFinished ==
    worker_pc = "returned" =>
        LET todo == AudioMsgs(worker_messages, heap)
        IN  /\ Len(emitted) = Len(todo) + 1
            /\ \A k \in 1..Len(todo) :
                 emitted[k] = <<"message_done", todo[k][1]>>
            /\ emitted[Len(emitted)] = <<"finished", 0>>

\* C8: in one run of the worker the completions are emitted in the order
\* of the list it was started with: their indices increase strictly, and
\* each is the index of a Record with an audio file, so a Record without
\* one never gets a completion.
C8_CompletionsInOrder ==
    /\ \A k \in 1..Len(emitted) : \A l \in 1..Len(emitted) :
         (k < l /\ emitted[k][1] = "message_done"
                /\ emitted[l][1] = "message_done")
            => emitted[k][2] < emitted[l][2]
    /\ \A k \in 1..Len(emitted) :
         emitted[k][1] = "message_done" =>
            /\ emitted[k][2] < Len(worker_messages)
            /\ IsSome(heap[worker_messages[emitted[k][2] + 1]].audio_file)

\* A run over a list of two Records with audio files has emitted both
\* completions and finished.
C8_Witness ==
    /\ Len(worker_messages) = 2
    /\ Len(emitted) = 3
    /\ emitted[1] = <<"message_done", 0>>
    /\ emitted[2] = <<"message_done", 1>>
    /\ emitted[3][1] = "finished"

\* C12: a Record the parser returned never changes but for its
\* transcript, and the transcript is assigned at most once while the
\* Record lives: a delivery writes the transcript of a Record that had
\* none and nothing else, and no other step changes a Record that the
\* window or the worker holds before and after it (loading a file drops
\* the Records of the file loaded before).
C12_RecordsWrittenOnce ==
    [][ /\ (DeliversCompletion /\ ~aborted') =>
              \A id \in 1..HeapSize :
                  heap'[id] # heap[id] =>
                      /\ IsNone(heap[id].transcript)
                      /\ heap'[id] =
                            [heap[id] EXCEPT !.transcript = heap'[id].transcript]
        /\ ~DeliversCompletion =>
              /\ \A id \in Range(worker_messages) \cap Range(worker_messages') :
                     heap'[id] = heap[id]
              /\ \/ \A id \in Range(messages) : heap'[id] = heap[id]
                 \/ _load_file ]_vars

\* ------------------------------------------------ claims about the summary
\* The lines of a summary, and among them the ranked list: what stands
\* between the line "Aktivitaet nach Teilnehmer:" and the blank line before
\* the closing note.
SummaryLines == Split(The(summary_result).value, NewLine)
RankedList == SubSeq(SummaryLines, 7, Len(SummaryLines) - 3)

\* The senders of the Records summarized, how many Records each has, and
\* where each is seen first.
SendersOf(store) == { store[i].sender : i \in 1..Len(store) }
CountOf(store, s) == Cardinality({ i \in 1..Len(store) : store[i].sender = s })
FirstOf(store, s) ==
    CHOOSE i \in 1..Len(store) :
        /\ store[i].sender = s
        /\ \A j \in 1..(i - 1) : store[j].sender # s

\* The line of the ranked list for a sender with a count.
RankedLine(s, c) == TextItem \o s \o TextCountOf \o Str(c) \o TextMessages

RECURSIVE SumOver(_, _)
SumOver(S, store) ==
    IF S = {} THEN 0
    ELSE LET s == CHOOSE x \in S : TRUE
         IN  CountOf(store, s) + SumOver(S \ {s}, store)

\* C16: for a list of Records that is not empty, the ranked list of the
\* summary has every sender exactly once, with the number of Records of
\* exactly that sender (the numbers add up to the total reported), in the
\* order of falling counts, and senders of the same count in the order in
\* which they are first seen in the list.
C16_RankedSenders ==
    (IsSome(summary_result) /\ summary_args.store # <<>>
        /\ ~The(summary_result).raised) =>
        \A ranked \in {RankedList} :
        \A total \in {SummaryLines[3]} :
            LET store == summary_args.store
                S == SendersOf(store)
                at(k) == CHOOSE s \in S : ranked[k] = RankedLine(s, CountOf(store, s))
            IN  /\ Len(ranked) = Cardinality(S)
                /\ \A k \in 1..Len(ranked) :
                     \E s \in S : ranked[k] = RankedLine(s, CountOf(store, s))
                /\ \A s \in S :
                     Cardinality({ k \in 1..Len(ranked) :
                                     ranked[k] = RankedLine(s, CountOf(store, s)) }) = 1
                /\ total = TextTotal \o Str(SumOver(S, store))
                /\ SumOver(S, store) = Len(store)
                /\ \A k \in 1..Len(ranked) : \A l \in 1..Len(ranked) :
                     k < l =>
                        \/ CountOf(store, at(k)) > CountOf(store, at(l))
                        \/ /\ CountOf(store, at(k)) = CountOf(store, at(l))
                           /\ FirstOf(store, at(k)) < FirstOf(store, at(l))

\* The senders a, B, c&, c& in this order have been summarized: c& is
\* ranked first with 2, then a and B with 1 each in the order of the list.
C16_Witness ==
    /\ IsSome(summary_result)
    /\ ~The(summary_result).raised
    /\ Len(summary_args.store) = 4
    /\ summary_args.store[1].sender = <<"a">>
    /\ summary_args.store[2].sender = <<"B">>
    /\ summary_args.store[3].sender = <<"c", "&">>
    /\ summary_args.store[4].sender = <<"c", "&">>
    /\ RankedList = << RankedLine(<<"c", "&">>, 2), RankedLine(<<"a">>, 1),
                       RankedLine(<<"B">>, 1) >>

\* C17: generate_summary on the empty list returns the fixed text "Keine
\* Nachrichten im gewaehlten Zeitraum.", which is not empty, and raises
\* nothing; on a list that is not empty it reports as the period the
\* timestamps of the first and of the last Record of the list, whatever
\* the earliest and the latest are.
C17_EmptyAndPeriod ==
    IsSome(summary_result) =>
        LET store == summary_args.store
        IN  /\ ~The(summary_result).raised
            /\ store = <<>> =>
                 /\ The(summary_result).value = TextNoMessages
                 /\ The(summary_result).value # <<>>
            /\ store # <<>> =>
                 SummaryLines[2] =
                     TextPeriod \o StrfMinute(The(store[1].datetime))
                         \o TextTo \o StrfMinute(The(store[Len(store)].datetime))

\* A list whose first Record is its latest and whose last Record is
\* neither its earliest nor its latest has been summarized.
C17_Witness ==
    /\ IsSome(summary_result)
    /\ Len(summary_args.store) = 3
    /\ The(summary_args.store[1].datetime).day = 12
    /\ The(summary_args.store[2].datetime).day = 1
    /\ The(summary_args.store[3].datetime).day = 3
    /\ ~The(summary_result).raised

\* ----------------------------------------------- claims about the exporter
\* The story of an export that returned, and in it the header line and
\* the content of the k-th Record: after the title, the line of the period
\* and a spacer come three flowables for each Record.
Story == The(export_result).value
HeaderOf(k) == Story[3 * k + 1]
ContentOf(k) == Story[3 * k + 2]
Exported == IsSome(export_result) /\ ~The(export_result).raised

\* C13: a Record with an audio file is rendered with its transcript
\* whenever the transcript is set, the empty transcript included, and with
\* the fixed text for a voice message not yet transcribed only when it has
\* no transcript; a Record without an audio file is rendered with its text.
C13_TranscriptOrPlaceholder ==
    Exported =>
        \A k \in 1..Len(export_args.store) :
            LET msg == export_args.store[k]
            IN  ContentOf(k).text =
                    IF IsNone(msg.audio_file) THEN Escape(msg.text)
                    ELSE IF IsSome(msg.transcript)
                         THEN TextTranscriptOpen \o The(msg.transcript)
                                  \o TextTranscriptClose
                         ELSE TextNotTranscribed

\* C14: export_pdf takes any list of Records that is not empty: it
\* returns, a Record without a timestamp, wherever it is in the list, has
\* a header line with the empty text for a timestamp, and the line of the
\* period is made of the first Record, the last Record and the length of
\* the list passed in.
C14_AbsentTimestampExported ==
    (IsSome(export_result) /\ export_args.store # <<>>) =>
        LET store == export_args.store
        IN  /\ ~The(export_result).raised
            /\ \A k \in 1..Len(store) :
                 IsNone(store[k].datetime) =>
                    HeaderOf(k).text =
                        TextBoldOpen \o store[k].sender
                            \o TextBoldCloseFontOpen \o TextFontClose
            /\ (IsSome(store[1].datetime) /\ IsSome(store[Len(store)].datetime)) =>
                 Story[2].text =
                     TextPeriod \o StrfDate(The(store[1].datetime)) \o TextTo
                         \o StrfDate(The(store[Len(store)].datetime))
                         \o TextBar \o Str(Len(store)) \o TextMessages

\* Whether the text has the entity at the place i.
HasAt(text, i, entity) ==
    /\ i + Len(entity) - 1 <= Len(text)
    /\ SubSeq(text, i, i + Len(entity) - 1) = entity

\* The text with every entity "&amp;", "&lt;" and "&gt;" read back as the
\* character it stands for, from left to right.
RECURSIVE UnescapeFrom(_, _)
UnescapeFrom(text, i) ==
    IF i > Len(text) THEN <<>>
    ELSE IF HasAt(text, i, TextAmp) THEN <<"&">> \o UnescapeFrom(text, i + Len(TextAmp))
    ELSE IF HasAt(text, i, TextLt) THEN <<"<">> \o UnescapeFrom(text, i + Len(TextLt))
    ELSE IF HasAt(text, i, TextGt) THEN <<">">> \o UnescapeFrom(text, i + Len(TextGt))
    ELSE <<text[i]>> \o UnescapeFrom(text, i + 1)

Unescape(text) == UnescapeFrom(text, 1)

\* An escaped text of the original: it has no "<" and no ">", each "&" in
\* it starts one of the three entities, and read back it is the original.
EscapedOnce(escaped, original) ==
    /\ \A i \in 1..Len(escaped) :
         /\ escaped[i] \notin {"<", ">"}
         /\ escaped[i] = "&" =>
               \/ HasAt(escaped, i, TextAmp)
               \/ HasAt(escaped, i, TextLt)
               \/ HasAt(escaped, i, TextGt)
    /\ Unescape(escaped) = original

\* The paragraphs of the summary in a story: what follows the heading.
SummaryPart ==
    SubSeq(Story, 3 * Len(export_args.store) + 6
                    - (IF export_args.store = <<>> THEN 1 ELSE 0),
           Len(Story))

\* C15: the text of a Record rendered as text and every line of the
\* summary are escaped once: what is rendered has no "<" and no ">", each
\* "&" in it starts "&amp;", "&lt;" or "&gt;", and read back it is the
\* original (a blank line of the summary is rendered as "&nbsp;").
C15_EscapedOnce ==
    Exported =>
        /\ \A k \in 1..Len(export_args.store) :
             IsNone(export_args.store[k].audio_file) =>
                 EscapedOnce(ContentOf(k).text, export_args.store[k].text)
        /\ Truthy(export_args.summary) =>
             \A ls \in {Split(The(export_args.summary), NewLine)} :
             \A part \in {SummaryPart} :
                 /\ Len(part) = Len(ls)
                 /\ \A j \in 1..Len(ls) :
                      IF ls[j] = <<>> THEN part[j].text = TextNbsp
                      ELSE EscapedOnce(part[j].text, ls[j])

\* A Record with the text "1<2&3>2", a Record with the text "&lt;" and the
\* summary of the lines "a&b", "" and "<c>" have been exported.
C15_Witness ==
    /\ Exported
    /\ Len(export_args.store) = 3
    /\ export_args.store[1] = RecordPlain
    /\ export_args.store[2] = RecordUndated
    /\ Truthy(export_args.summary)
    /\ ContentOf(2).text = TextAmp \o <<"l", "t", ";">>
    /\ Len(SummaryPart) = 3

\* C19: nothing of the chat reaches the markup of the document unescaped:
\* the sender in the header line, the transcript or the placeholder of a
\* failed transcription in the transcript block, and the text of a Record
\* are all rendered escaped.
C19_NoMarkupInjection ==
    Exported =>
        \A k \in 1..Len(export_args.store) :
            LET msg == export_args.store[k]
            IN  /\ HeaderOf(k).text =
                     TextBoldOpen \o Escape(msg.sender) \o TextBoldCloseFontOpen
                         \o (IF IsSome(msg.datetime)
                             THEN StrfMinute(The(msg.datetime)) ELSE <<>>)
                         \o TextFontClose
                /\ IsNone(msg.audio_file) => ContentOf(k).text = Escape(msg.text)
                /\ (IsSome(msg.audio_file) /\ Truthy(msg.transcript)) =>
                     ContentOf(k).text =
                         TextTranscriptOpen \o Escape(The(msg.transcript))
                             \o TextTranscriptClose

\* ------------------------------------- claims about the window's summary
\* C20: after any clicks on load, filter, summary and export, summary_text
\* is None or the summary of filtered_messages as it is now, and so the
\* summary an export hands to export_pdf, if any, is the summary of the
\* very list it hands over.
C20_SummaryOfFilteredMessages ==
    /\ IsSome(summary_text) =>
          \A result \in {generate_summary(filtered_messages, heap)} :
              ~result.raised /\ The(summary_text) = result.value
    /\ (IsSome(export_result) /\ IsSome(export_args.summary)) =>
          \A result \in {generate_summary(export_args.messages, export_args.store)} :
              ~result.raised /\ The(export_args.summary) = result.value

\* ------------------------------- claims about a file parsed and then filtered
\* C11: a header line whose date and time cannot be parsed still gives a
\* Record, without a timestamp and with its sender and text; the parse
\* goes on, and every Record is the Record its own lines give when they
\* are parsed alone; and filter_messages, whatever the dates and the
\* sender selection, never returns a Record without a timestamp.
C11_UnparsableDateTolerated ==
    /\ IsSome(returned) =>
         LET out == The(returned)
             H == HeaderLines(lines)
         IN  /\ Len(out) = Len(H)
             /\ \A k \in 1..Min(Len(H), Len(out)) :
                  LET m == WHATSAPP_MSG_RE(lines[H[k]])
                      own == SubSeq(lines, H[k], LastLineOf(lines, k))
                  IN  /\ out[k] = parse_whatsapp_export(own, BaseDir, disk)[1]
                      /\ IsNone(ParseDateTime(m.date_str, m.time_str)) =>
                           /\ IsNone(out[k].datetime)
                           /\ out[k].sender = Strip(m.sender)
                           /\ IsPrefix(Strip(m.text), out[k].text)
    /\ IsSome(filter_result) =>
         \A i \in 1..Len(filter_args.store) :
             IsNone(filter_args.store[i].datetime) =>
                 \A k \in 1..Len(The(filter_result)) :
                     The(filter_result)[k] # i

\* A file of a header line with the date 31 February and a header line
\* with a date in the range has been parsed into two Records, and the
\* filter has returned the second alone.
C11_Witness ==
    /\ IsSome(returned)
    /\ IsSome(filter_result)
    /\ lines = <<LineBadDate, LineHello>>
    /\ Len(The(returned)) = 2
    /\ IsNone(The(returned)[1].datetime)
    /\ The(returned)[1].sender = <<"a">>
    /\ IsNone(filter_args.senders)
    /\ The(filter_result) = <<2>>

====
